---- MODULE Spec2Model ----
(***************************************************************************)
(* Gestor de tareas CLI: the Tarea entity (models/tarea.js), the global    *)
(* collection and its persistence (data/tareas.js, utils/fileStorage.js),  *)
(* the controller operations (controllers/tareasController.js) and the     *)
(* main loop (index.js).                                                   *)
(*                                                                         *)
(* Strings are sequences of one-character strings, so that trim(),         *)
(* toLowerCase() and JSON (de)serialisation are computed, not assumed.     *)
(* Timestamps are clock readings (milliseconds); their ISO-8601 text has   *)
(* fixed width, so comparing the texts is comparing the readings.          *)
(***************************************************************************)
EXTENDS Integers, Sequences, FiniteSets, TLC

VARIABLES
  tareas,        \* data/tareas.js: export let tareas = []
  disk,          \* content of data/tareas.json
  idCounter,     \* lodash's module-level counter behind _.uniqueId
  ahora,         \* the system clock read by new Date()
  pc,            \* where the process is: menu, an open prompt, or terminated
  codigoSalida,  \* exit status of the process once terminated
  ultima,        \* what the last handler did: inputs, message, persistence
  salida         \* what the last handler printed: the tasks of a listing or
                 \* of a search in printed order, or the figures of the statistics

vars == <<tareas, disk, idCounter, ahora, pc, codigoSalida, ultima, salida>>

(***************************************************************************)
(* Bounds of the model.                                                    *)
(***************************************************************************)
MaxTareas == 3
MaxReloj == 1

\* The texts a user types at a prompt: empty, blank, a word, the same word
\* in another case, the word padded with blanks, and two other words.
Entradas ==
  { <<>>,
    <<" ", " ">>,
    <<"a">>,
    <<"A">>,
    <<" ", "a", " ">>,
    <<"b">>,
    <<"A", "b">> }

(***************************************************************************)
(* JavaScript string primitives.                                           *)
(***************************************************************************)
EsBlanco(c) == c = " "

RECURSIVE TrimInicio(_)
TrimInicio(s) ==
  IF s = <<>> THEN <<>>
  ELSE IF EsBlanco(Head(s)) THEN TrimInicio(Tail(s))
  ELSE s

RECURSIVE TrimFin(_)
TrimFin(s) ==
  IF s = <<>> THEN <<>>
  ELSE IF EsBlanco(s[Len(s)]) THEN TrimFin(SubSeq(s, 1, Len(s) - 1))
  ELSE s

\* Faulty variant: the text is not trimmed at all
TrimNada(s) == s

\* String.prototype.trim
Trim(s) == TrimFin(TrimInicio(s))

MinusculaDe(c) ==
  CASE c = "A" -> "a"
    [] c = "B" -> "b"
    [] OTHER -> c

\* _.toLower / String.prototype.toLowerCase
ToLower(s) == [i \in 1..Len(s) |-> MinusculaDe(s[i])]

\* The values null and undefined: functions on {0}, which no string is
Nulo == [i \in {0} |-> "null"]
Indefinido == [i \in {0} |-> "undefined"]
EsNullish(v) == DOMAIN v = {0}

\* v?.trim(): undefined for null and undefined, the trimmed text otherwise
TrimOpcional(v) == IF EsNullish(v) THEN Indefinido ELSE Trim(v)

\* _.isEmpty on a string, on null or on undefined
IsEmpty(s) == IF EsNullish(s) THEN TRUE ELSE Len(s) = 0

(***************************************************************************)
(* models/tarea.js: class Tarea.                                           *)
(* An object is a record; the field clase is its prototype ("Tarea" for an *)
(* instance of the class, "Object" for what JSON.parse builds). A property *)
(* that does not exist is a field outside the record's DOMAIN.             *)
(***************************************************************************)
Tiene(t, campo) == campo \in DOMAIN t

SinCampo(t, campo) == [k \in DOMAIN t \ {campo} |-> t[k]]

\* _.uniqueId('tarea_'): ++idCounter, then prefix + id
uniqueId(prefijo, contador) == <<prefijo, contador + 1>>

\* Faulty variant: the constructor stores the text as typed
TareaNuevaSinTrim(descripcion, contador, reloj) ==
  [ clase |-> "Tarea",
    id |-> uniqueId("tarea_", contador),
    descripcion |-> descripcion,
    completada |-> FALSE,
    fechaCreacion |-> reloj ]

\* constructor(descripcion)
TareaNueva(descripcion, contador, reloj) ==
  [ clase |-> "Tarea",
    id |-> uniqueId("tarea_", contador),
    descripcion |-> Trim(descripcion),
    completada |-> FALSE,
    fechaCreacion |-> reloj ]

\* marcarCompletada()
marcarCompletada(t, reloj) ==
  [k \in DOMAIN t \cup {"fechaCompletada"} |->
     IF k = "completada" THEN TRUE
     ELSE IF k = "fechaCompletada" THEN reloj
     ELSE t[k]]

\* Faulty variant: the flag is cleared but fechaCompletada is left in place
marcarPendienteSinBorrar(t) == [t EXCEPT !.completada = FALSE]

\* marcarPendiente()
marcarPendiente(t) ==
  [k \in DOMAIN t \ {"fechaCompletada"} |->
     IF k = "completada" THEN FALSE ELSE t[k]]

\* Faulty variant: the text is not trimmed before it is looked at
validarDescripcionSinTrim(descripcion) == ~IsEmpty(descripcion)

\* static validarDescripcion(descripcion): !_.isEmpty(descripcion?.trim())
validarDescripcion(descripcion) == ~IsEmpty(TrimOpcional(descripcion))

\* static crearTarea(descripcion): the Error it throws, or the new instance
crearTarea(descripcion, contador, reloj) ==
  IF ~validarDescripcion(descripcion)
  THEN [tipo |-> "Error"]
  ELSE [tipo |-> "Tarea", tarea |-> TareaNueva(descripcion, contador, reloj)]

(***************************************************************************)
(* utils/fileStorage.js: the JSON file.                                    *)
(***************************************************************************)
\* Faulty variant: the serialisation leaves fechaCompletada out
StringifySinFechaCompletada(t) == SinCampo(SinCampo(t, "clase"), "fechaCompletada")

\* JSON.stringify of one object: its own properties, the prototype is lost
Stringify(t) == SinCampo(t, "clase")

\* JSON.parse of one object text: a plain object with those properties
Parse(j) == [k \in DOMAIN j \cup {"clase"} |-> IF k = "clase" THEN "Object" ELSE j[k]]

\* The file: missing, not readable, not JSON, the JSON text of an array of
\* task objects, or the JSON text of some other value
ArchivoAusente == [tipo |-> "ausente"]
ArchivoIlegible == [tipo |-> "ilegible"]
ArchivoCorrupto == [tipo |-> "corrupto"]
ArchivoJson(ts) == [tipo |-> "json", contenido |-> [i \in 1..Len(ts) |-> Stringify(ts[i])]]
ArchivoValor(v) == [tipo |-> "valor", valor |-> v]

\* What JSON.parse returns: an array with its elements, a string with its
\* characters, or a value that is neither (object, null, number)
ValorArray(elementos) == [json |-> "array", elementos |-> elementos]
ValorString(caracteres) == [json |-> "string", caracteres |-> caracteres]
ValorObject == [json |-> "object"]
ValorNull == [json |-> "null"]
ValorNumber == [json |-> "number"]

\* cargarTareas(): what JSON.parse made of the file, or [] when fs.access,
\* fs.readFile or JSON.parse throws
cargarTareas(archivo) ==
  CASE archivo.tipo = "json" ->
         ValorArray([i \in 1..Len(archivo.contenido) |-> Parse(archivo.contenido[i])])
    [] archivo.tipo = "valor" -> archivo.valor
    [] OTHER -> ValorArray(<<>>)

\* The spread ...v of a call: the elements of an array, the characters of a
\* string, a TypeError for a value that is not iterable
Spread(v) ==
  CASE v.json = "array" -> [tipo |-> "ok", elementos |-> v.elementos]
    [] v.json = "string" -> [tipo |-> "ok", elementos |-> v.caracteres]
    [] OTHER -> [tipo |-> "TypeError"]

\* What fs.mkdir + fs.writeFile can do to the file: write it whole, throw
\* before opening it, or throw after opening (and so truncating) it.
ResultadosEscritura == {"ok", "rechazada", "truncada"}

\* Faulty variant: success is reported but the file is not written
guardarTareasSinEscribir(ts, archivo, resultado) ==
  [archivo |-> archivo, retorno |-> resultado = "ok"]

\* Faulty variant: a failed write leaves an empty array in the file
guardarTareasFalloVacia(ts, archivo, resultado) ==
  IF resultado = "ok"
  THEN [archivo |-> ArchivoJson(ts), retorno |-> TRUE]
  ELSE [archivo |-> ArchivoJson(<<>>), retorno |-> FALSE]

\* guardarTareas(tareas): the file afterwards and the boolean returned
guardarTareas(ts, archivo, resultado) ==
  CASE resultado = "ok" -> [archivo |-> ArchivoJson(ts), retorno |-> TRUE]
    [] resultado = "rechazada" -> [archivo |-> archivo, retorno |-> FALSE]
    [] OTHER -> [archivo |-> ArchivoCorrupto, retorno |-> FALSE]

(***************************************************************************)
(* data/tareas.js: the repository.                                         *)
(***************************************************************************)
\* inicializarTareas(): tareas.length = 0; tareas.push(...await cargarTareas()).
\* The collection afterwards, and whether the spread threw
inicializarTareas(archivo) ==
  LET s == Spread(cargarTareas(archivo))
  IN IF s.tipo = "TypeError"
     THEN [tipo |-> "TypeError", tareas |-> <<>>]
     ELSE [tipo |-> "ok", tareas |-> <<>> \o s.elementos]

\* persistirTareas(): return await guardarTareas(tareas)
persistirTareas(ts, archivo, resultado) == guardarTareas(ts, archivo, resultado)

(***************************************************************************)
(* lodash: _.filter, _.orderBy, _.find.                                    *)
(***************************************************************************)
\* _.filter(tareas, 'completada')
Completadas(ts) == SelectSeq(ts, LAMBDA t : t.completada)

\* _.filter(tareas, t => !t.completada)
Pendientes(ts) == SelectSeq(ts, LAMBDA t : ~t.completada)

\* The value _.orderBy compares for a key: false sorts before true
ValorClave(t, clave) ==
  IF clave = "completada" THEN (IF t.completada THEN 1 ELSE 0) ELSE t[clave]

compareAscending(a, b) == IF a < b THEN -1 ELSE IF a > b THEN 1 ELSE 0

\* lodash compareMultiple: the first key that differs decides, in its order
RECURSIVE compareMultiple(_, _, _, _)
compareMultiple(a, b, claves, ordenes) ==
  IF claves = <<>> THEN 0
  ELSE LET r == compareAscending(ValorClave(a, Head(claves)), ValorClave(b, Head(claves)))
       IN IF r # 0
          THEN (IF Head(ordenes) = "desc" THEN -r ELSE r)
          ELSE compareMultiple(a, b, Tail(claves), Tail(ordenes))

\* One step of the stable sort: t goes after every element not greater than it
RECURSIVE Insertar(_, _, _, _)
Insertar(ordenada, t, claves, ordenes) ==
  IF ordenada = <<>> THEN <<t>>
  ELSE IF compareMultiple(Head(ordenada), t, claves, ordenes) <= 0
  THEN <<Head(ordenada)>> \o Insertar(Tail(ordenada), t, claves, ordenes)
  ELSE <<t>> \o ordenada

\* _.orderBy(coleccion, claves, ordenes): a stable sort (ties keep the
\* collection's order, lodash compares the original indexes last)
RECURSIVE orderBy(_, _, _)
orderBy(ts, claves, ordenes) ==
  IF ts = <<>> THEN <<>>
  ELSE Insertar(orderBy(SubSeq(ts, 1, Len(ts) - 1), claves, ordenes),
                ts[Len(ts)], claves, ordenes)

\* String.prototype.indexOf(sub, desde), positions counted from 0; -1: absent
RECURSIVE IndexOf(_, _, _)
IndexOf(s, sub, desde) ==
  IF desde + Len(sub) > Len(s) THEN -1
  ELSE IF SubSeq(s, desde + 1, desde + Len(sub)) = sub THEN desde
  ELSE IndexOf(s, sub, desde + 1)

\* _.includes(cadena, sub) on a string
Includes(s, sub) == IndexOf(s, sub, 0) # -1

\* One reading of the clock stands for so many to the calendar day
LecturasPorDia == 2

\* new Date(fecha).toDateString(): the calendar day of a reading
toDateString(fecha) == fecha \div LecturasPorDia

\* _.groupBy(ts, t => new Date(t.fechaCreacion).toDateString()) seen through
\* Object.entries: one entry per day, in the order the days first occur in ts
RECURSIVE groupByFecha(_)
groupByFecha(ts) ==
  IF ts = <<>> THEN <<>>
  ELSE LET antes == groupByFecha(SubSeq(ts, 1, Len(ts) - 1))
           t == ts[Len(ts)]
           dia == toDateString(t.fechaCreacion)
       IN IF \E k \in 1..Len(antes) : antes[k].fecha = dia
          THEN [k \in 1..Len(antes) |->
                  IF antes[k].fecha = dia
                  THEN [antes[k] EXCEPT !.tareas = Append(@, t)]
                  ELSE antes[k]]
          ELSE Append(antes, [fecha |-> dia, tareas |-> <<t>>])

\* Faulty variant: an entry as large as the largest so far replaces it
RECURSIVE maxByUltimo(_)
maxByUltimo(entradas) ==
  IF Len(entradas) = 1 THEN entradas[1]
  ELSE LET m == maxByUltimo(SubSeq(entradas, 1, Len(entradas) - 1))
           e == entradas[Len(entradas)]
       IN IF Len(e.tareas) >= Len(m.tareas) THEN e ELSE m

\* _.maxBy(entradas, ([fecha, tareas]) => tareas.length) on a non-empty
\* array: an entry replaces the largest so far only when strictly larger
RECURSIVE maxBy(_)
maxBy(entradas) ==
  IF Len(entradas) = 1 THEN entradas[1]
  ELSE LET m == maxBy(SubSeq(entradas, 1, Len(entradas) - 1))
           e == entradas[Len(entradas)]
       IN IF Len(e.tareas) > Len(m.tareas) THEN e ELSE m

\* Faulty variant: the quotient is truncated
PorcentajeTruncado(parte, total) == (100 * parte) \div total

\* Math.round((parte / total) * 100) for total > 0: the nearest integer,
\* halves rounded up
Porcentaje(parte, total) == (200 * parte + total) \div (2 * total)

\* The value of a choice of the selection prompts: value: t._id
ValorEleccion(t) == IF Tiene(t, "_id") THEN t._id ELSE "undefined"

\* t._id.equals(tareaSeleccionada): reading .equals of undefined is a TypeError
IdEquals(t, seleccion) ==
  IF ~Tiene(t, "_id") THEN "TypeError"
  ELSE IF t._id = seleccion THEN "true"
  ELSE "false"

\* _.find(tareas, t => t._id.equals(tareaSeleccionada)), scanning from index i
RECURSIVE FindPorId(_, _, _)
FindPorId(ts, seleccion, i) ==
  IF i > Len(ts) THEN [tipo |-> "undefined"]
  ELSE LET r == IdEquals(ts[i], seleccion)
       IN IF r = "TypeError" THEN [tipo |-> "TypeError"]
          ELSE IF r = "true" THEN [tipo |-> "encontrada", i |-> i]
          ELSE FindPorId(ts, seleccion, i + 1)

\* _.remove(tareas, t => t._id.equals(tareaSeleccionada)): the predicate runs
\* on every element before any is removed
removePorId(ts, seleccion) ==
  IF \E i \in 1..Len(ts) : IdEquals(ts[i], seleccion) = "TypeError"
  THEN [tipo |-> "TypeError"]
  ELSE [tipo |-> "ok",
        tareas |-> SelectSeq(ts, LAMBDA t : IdEquals(t, seleccion) # "true")]

(***************************************************************************)
(* controllers/tareasController.js.                                        *)
(***************************************************************************)
\* What a handler leaves to be observed: the operation, the text the user
\* answers its input prompt with (whether or not the handler gets as far as
\* reading it), the filter, the position in tareas of the task picked
\* (0: none), the message shown, whether persistirTareas was called and what
\* it returned.
Ultima(op, entrada, filtro, sel, mensaje, persistio, guardado) ==
  [ op |-> op, entrada |-> entrada, filtro |-> filtro, sel |-> sel,
    mensaje |-> mensaje, persistio |-> persistio, guardado |-> guardado ]

\* Faulty variant: the comparison is case-sensitive
ExisteDescripcionExacta(ts, texto) ==
  \E i \in 1..Len(ts) : ts[i].descripcion = texto

\* Some task of ts has this description, compared as the validators do
ExisteDescripcion(ts, texto) ==
  \E i \in 1..Len(ts) : ToLower(ts[i].descripcion) = ToLower(texto)

\* Faulty variant: the validator does not look for duplicates
validarAgregarSoloVacia(ts, input) ==
  IF IsEmpty(Trim(input)) THEN "vacia" ELSE "true"

\* validate of agregarTarea's prompt: "true", or the message it returns
validarAgregar(ts, input) ==
  IF IsEmpty(Trim(input)) THEN "vacia"
  ELSE IF ExisteDescripcion(ts, Trim(input)) THEN "duplicada"
  ELSE "true"

\* validate of editarTarea's prompt; the task at position sel is the one
\* whose _id equals the selected value
validarEditar(ts, seleccion, input) ==
  IF IsEmpty(Trim(input)) THEN "vacia"
  ELSE IF \E i \in 1..Len(ts) :
            /\ IdEquals(ts[i], seleccion) = "false"
            /\ ToLower(ts[i].descripcion) = ToLower(Trim(input))
       THEN "duplicada"
  ELSE "true"

Filtros == {"todas", "completadas", "pendientes"}

\* The subset listarTareas selects for a filter
Filtrar(ts, filtro) ==
  CASE filtro = "completadas" -> Completadas(ts)
    [] filtro = "pendientes" -> Pendientes(ts)
    [] OTHER -> ts

\* Faulty variant: both keys are sorted ascending (oldest first)
listarTareasAscendente(ts, filtro) ==
  IF ts = <<>> THEN [mensaje |-> "sin_tareas", lista |-> <<>>]
  ELSE IF Filtrar(ts, filtro) = <<>> THEN [mensaje |-> "sin_resultados", lista |-> <<>>]
  ELSE [ mensaje |-> "lista",
         lista |-> orderBy(Filtrar(ts, filtro),
                           <<"completada", "fechaCreacion">>, <<"asc", "asc">>) ]

\* listarTareas(filtro): the message and the tasks printed, in printed order
listarTareas(ts, filtro) ==
  IF ts = <<>> THEN [mensaje |-> "sin_tareas", lista |-> <<>>]
  ELSE IF Filtrar(ts, filtro) = <<>> THEN [mensaje |-> "sin_resultados", lista |-> <<>>]
  ELSE [ mensaje |-> "lista",
         lista |-> orderBy(Filtrar(ts, filtro),
                           <<"completada", "fechaCreacion">>, <<"asc", "desc">>) ]

\* validate of buscarTareas's prompt
validarTermino(input) == IF IsEmpty(Trim(input)) THEN "termino_vacio" ELSE "true"

\* Faulty variant: the matches are sorted as the listing sorts
buscarTareasOrdenadas(ts, termino) ==
  LET encontradas ==
        orderBy(SelectSeq(ts, LAMBDA t :
                  Includes(ToLower(t.descripcion), ToLower(Trim(termino)))),
                <<"completada", "fechaCreacion">>, <<"asc", "desc">>)
  IN IF encontradas = <<>>
     THEN [mensaje |-> "sin_resultados", lista |-> <<>>]
     ELSE [mensaje |-> "encontradas", lista |-> encontradas]

\* buscarTareas() once the term is read: the message and the tasks printed,
\* in printed order
buscarTareas(ts, termino) ==
  LET tareasEncontradas ==
        SelectSeq(ts, LAMBDA t :
          Includes(ToLower(t.descripcion), ToLower(Trim(termino))))
  IN IF tareasEncontradas = <<>>
     THEN [mensaje |-> "sin_resultados", lista |-> <<>>]
     ELSE [mensaje |-> "encontradas", lista |-> tareasEncontradas]

\* Faulty variant: the figures are computed for an empty collection too
mostrarEstadisticasSinAviso(ts) ==
  IF ts = <<>>
  THEN [ mensaje |-> "estadisticas", total |-> 0, completadas |-> 0,
         pendientes |-> 0, porcentajeCompletadas |-> 0 ]
  ELSE LET fechasConMasTareas == maxBy(groupByFecha(ts))
       IN [ mensaje |-> "estadisticas",
            total |-> Len(ts),
            completadas |-> Len(Completadas(ts)),
            pendientes |-> Len(Pendientes(ts)),
            porcentajeCompletadas |-> Porcentaje(Len(Completadas(ts)), Len(ts)),
            diaMasProductivo |-> fechasConMasTareas.fecha,
            tareasDelDia |-> Len(fechasConMasTareas.tareas) ]

\* mostrarEstadisticas(): what it prints, the notice that there are no tasks
\* or the figures
mostrarEstadisticas(ts) ==
  IF ts = <<>>
  THEN [mensaje |-> "sin_tareas"]
  ELSE LET fechasConMasTareas == maxBy(groupByFecha(ts))
       IN [ mensaje |-> "estadisticas",
            total |-> Len(ts),
            completadas |-> Len(Completadas(ts)),
            pendientes |-> Len(Pendientes(ts)),
            porcentajeCompletadas |-> Porcentaje(Len(Completadas(ts)), Len(ts)),
            diaMasProductivo |-> fechasConMasTareas.fecha,
            tareasDelDia |-> Len(fechasConMasTareas.tareas) ]

(***************************************************************************)
(* The process: index.js main(), one action per menu option.               *)
(***************************************************************************)
Init ==
  /\ tareas = <<>>
  /\ disk = ArchivoAusente
  /\ idCounter = 0
  /\ ahora = 0
  /\ pc = "menu"
  /\ codigoSalida = "ninguno"
  /\ ultima = Ultima("iniciar", <<>>, "", 0, "listo", FALSE, FALSE)
  /\ salida = <<>>

\* Time passes
Tick ==
  /\ ahora < MaxReloj
  /\ ahora' = ahora + 1
  /\ UNCHANGED <<tareas, disk, idCounter, pc, codigoSalida, ultima, salida>>

\* config/database.js: let client = null. Nothing in the program calls
\* conectarDB, the only place that assigns it
Cliente == "null"

\* cerrarConexion(): closes the client if there is one
cerrarConexion(cliente) ==
  IF cliente # "null"
  THEN [client |-> "null", mensaje |-> "cerrada"]
  ELSE [client |-> cliente, mensaje |-> "sin_conexion"]

\* What a handler leaves to be observed when it has also called
\* cerrarConexion: the outcome of that call is added
ConCierre(u) ==
  [k \in DOMAIN u \cup {"cierre"} |->
     IF k = "cierre" THEN cerrarConexion(Cliente).mensaje ELSE u[k]]

\* Faulty variant: the process is ended without calling cerrarConexion
FatalSinCerrar(op, entrada, sel) ==
  /\ pc' = "terminado"
  /\ codigoSalida' = "1"
  /\ ultima' = Ultima(op, entrada, "", sel, "TypeError", FALSE, FALSE)
  /\ salida' = <<>>
  /\ UNCHANGED <<tareas, disk, idCounter, ahora>>

\* main().catch: an error no handler caught is reported, cerrarConexion is
\* called and the process ends with status 1
Fatal(op, entrada, sel) ==
  /\ pc' = "terminado"
  /\ codigoSalida' = "1"
  /\ ultima' = ConCierre(Ultima(op, entrada, "", sel, "TypeError", FALSE, FALSE))
  /\ salida' = <<>>
  /\ UNCHANGED <<tareas, disk, idCounter, ahora>>

\* Faulty variant: the collection is loaded again from the file before the
\* text is validated and the task added
AgregarTareaRecargando(entrada) ==
  /\ pc \in {"menu", "agregar"}
  /\ Len(tareas) < MaxTareas
  /\ salida' = <<>>
  /\ UNCHANGED <<ahora, codigoSalida>>
  /\ LET recargadas == inicializarTareas(disk).tareas
         v == validarAgregar(recargadas, entrada)
         c == crearTarea(entrada, idCounter, ahora)
     IN IF v # "true"
        THEN /\ pc' = "agregar"
             /\ ultima' = Ultima("agregar", entrada, "", 0, v, FALSE, FALSE)
             /\ tareas' = recargadas
             /\ UNCHANGED <<disk, idCounter>>
        ELSE IF c.tipo = "Error"
        THEN /\ pc' = "menu"
             /\ ultima' = Ultima("agregar", entrada, "", 0, "Error", FALSE, FALSE)
             /\ tareas' = recargadas
             /\ UNCHANGED <<disk, idCounter>>
        ELSE \E resultado \in ResultadosEscritura :
               LET nuevas == Append(recargadas, c.tarea)
                   g == persistirTareas(nuevas, disk, resultado)
               IN /\ tareas' = nuevas
                  /\ idCounter' = idCounter + 1
                  /\ disk' = g.archivo
                  /\ pc' = "menu"
                  /\ ultima' = Ultima("agregar", entrada, "", Len(nuevas),
                                      "agregada", TRUE, g.retorno)

\* Option 1, agregarTarea: the user answers the prompt with entrada; a text
\* the validator refuses leaves the prompt open
AgregarTarea(entrada) ==
  /\ pc \in {"menu", "agregar"}
  /\ Len(tareas) < MaxTareas
  /\ salida' = <<>>
  /\ UNCHANGED <<ahora, codigoSalida>>
  /\ LET v == validarAgregar(tareas, entrada)
         c == crearTarea(entrada, idCounter, ahora)
     IN IF v # "true"
        THEN /\ pc' = "agregar"
             /\ ultima' = Ultima("agregar", entrada, "", 0, v, FALSE, FALSE)
             /\ UNCHANGED <<tareas, disk, idCounter>>
        ELSE IF c.tipo = "Error"
        THEN /\ pc' = "menu"
             /\ ultima' = Ultima("agregar", entrada, "", 0, "Error", FALSE, FALSE)
             /\ UNCHANGED <<tareas, disk, idCounter>>
        ELSE \E resultado \in ResultadosEscritura :
               LET nuevas == Append(tareas, c.tarea)
                   g == persistirTareas(nuevas, disk, resultado)
               IN /\ tareas' = nuevas
                  /\ idCounter' = idCounter + 1
                  /\ disk' = g.archivo
                  /\ pc' = "menu"
                  /\ ultima' = Ultima("agregar", entrada, "", Len(nuevas),
                                      "agregada", TRUE, g.retorno)

\* Faulty variant: the collection itself is sorted (tareas.sort) and what is
\* printed is filtered from it
ListarTareasEnSitio(filtro) ==
  /\ pc = "menu"
  /\ LET ordenadas == orderBy(tareas, <<"completada", "fechaCreacion">>, <<"asc", "desc">>)
         r == listarTareas(ordenadas, filtro)
     IN /\ tareas' = ordenadas
        /\ salida' = r.lista
        /\ ultima' = Ultima("listar", <<>>, filtro, 0, r.mensaje, FALSE, FALSE)
  /\ UNCHANGED <<disk, idCounter, ahora, pc, codigoSalida>>

\* Options 2, 3, 4: listarTareas(filtro)
ListarTareas(filtro) ==
  /\ pc = "menu"
  /\ LET r == listarTareas(tareas, filtro)
     IN /\ salida' = r.lista
        /\ ultima' = Ultima("listar", <<>>, filtro, 0, r.mensaje, FALSE, FALSE)
  /\ UNCHANGED <<tareas, disk, idCounter, ahora, pc, codigoSalida>>

\* Faulty variant: every task is offered, completed ones too
CompletarTareaCualquiera(sel) ==
  /\ pc = "menu"
  /\ tareas # <<>>
  /\ sel \in 1..Len(tareas)
  /\ LET f == FindPorId(tareas, ValorEleccion(tareas[sel]), 1)
     IN IF f.tipo # "encontrada" \/ tareas[f.i].clase # "Tarea"
        THEN Fatal("completar", <<>>, sel)
        ELSE \E resultado \in ResultadosEscritura :
               LET nuevas == [tareas EXCEPT ![f.i] = marcarCompletada(@, ahora)]
                   g == persistirTareas(nuevas, disk, resultado)
               IN /\ tareas' = nuevas
                  /\ disk' = g.archivo
                  /\ ultima' = Ultima("completar", <<>>, "", sel,
                                      "completada", TRUE, g.retorno)
                  /\ salida' = <<>>
                  /\ UNCHANGED <<idCounter, ahora, pc, codigoSalida>>

\* Option 5, completarTarea: the user picks the pending task at position sel
\* (sel = 0: there is none to pick)
CompletarTarea(sel) ==
  /\ pc = "menu"
  /\ IF Pendientes(tareas) = <<>>
     THEN /\ sel = 0
          /\ ultima' = Ultima("completar", <<>>, "", 0, "sin_pendientes", FALSE, FALSE)
          /\ salida' = <<>>
          /\ UNCHANGED <<tareas, disk, idCounter, ahora, pc, codigoSalida>>
     ELSE /\ sel \in 1..Len(tareas)
          /\ ~tareas[sel].completada
          /\ LET f == FindPorId(tareas, ValorEleccion(tareas[sel]), 1)
             IN IF f.tipo # "encontrada" \/ tareas[f.i].clase # "Tarea"
                THEN Fatal("completar", <<>>, sel)
                ELSE \E resultado \in ResultadosEscritura :
                       LET nuevas == [tareas EXCEPT ![f.i] = marcarCompletada(@, ahora)]
                           g == persistirTareas(nuevas, disk, resultado)
                       IN /\ tareas' = nuevas
                          /\ disk' = g.archivo
                          /\ ultima' = Ultima("completar", <<>>, "", sel,
                                              "completada", TRUE, g.retorno)
                          /\ salida' = <<>>
                          /\ UNCHANGED <<idCounter, ahora, pc, codigoSalida>>

\* Option 6, editarTarea: the user picks the task at position sel (sel = 0:
\* there is none) and has the text entrada to answer the description prompt
\* with; a refused text leaves the prompt open
EditarTarea(sel, entrada) ==
  /\ pc \in {"menu", "editar"}
  /\ IF tareas = <<>>
     THEN /\ sel = 0
          /\ entrada = <<>>
          /\ ultima' = Ultima("editar", <<>>, "", 0, "sin_tareas", FALSE, FALSE)
          /\ salida' = <<>>
          /\ UNCHANGED <<tareas, disk, idCounter, ahora, pc, codigoSalida>>
     ELSE /\ sel \in 1..Len(tareas)
          /\ pc = "editar" => sel = ultima.sel
          /\ LET valor == ValorEleccion(tareas[sel])
                 f == FindPorId(tareas, valor, 1)
             IN IF f.tipo # "encontrada"
                THEN Fatal("editar", entrada, sel)
                ELSE LET v == validarEditar(tareas, valor, entrada)
                     IN IF v # "true"
                        THEN /\ pc' = "editar"
                             /\ ultima' = Ultima("editar", entrada, "", sel, v, FALSE, FALSE)
                             /\ salida' = <<>>
                             /\ UNCHANGED <<tareas, disk, idCounter, ahora, codigoSalida>>
                        ELSE \E resultado \in ResultadosEscritura :
                               LET nuevas == [tareas EXCEPT ![f.i].descripcion = Trim(entrada)]
                                   g == persistirTareas(nuevas, disk, resultado)
                               IN /\ tareas' = nuevas
                                  /\ disk' = g.archivo
                                  /\ pc' = "menu"
                                  /\ ultima' = Ultima("editar", entrada, "", sel,
                                                      "actualizada", TRUE, g.retorno)
                                  /\ salida' = <<>>
                                  /\ UNCHANGED <<idCounter, ahora, codigoSalida>>

\* Option 7, buscarTareas: the user answers the prompt with termino; a blank
\* term leaves the prompt open
BuscarTareas(termino) ==
  /\ pc \in {"menu", "buscar"}
  /\ IF tareas = <<>>
     THEN /\ termino = <<>>
          /\ pc' = pc
          /\ salida' = <<>>
          /\ ultima' = Ultima("buscar", <<>>, "", 0, "sin_tareas", FALSE, FALSE)
     ELSE IF validarTermino(termino) # "true"
     THEN /\ pc' = "buscar"
          /\ salida' = <<>>
          /\ ultima' = Ultima("buscar", termino, "", 0, validarTermino(termino), FALSE, FALSE)
     ELSE LET r == buscarTareas(tareas, termino)
          IN /\ pc' = "menu"
             /\ salida' = r.lista
             /\ ultima' = Ultima("buscar", termino, "", 0, r.mensaje, FALSE, FALSE)
  /\ UNCHANGED <<tareas, disk, idCounter, ahora, codigoSalida>>

\* Option 8, mostrarEstadisticas
MostrarEstadisticas ==
  /\ pc = "menu"
  /\ LET r == mostrarEstadisticas(tareas)
     IN /\ salida' = r
        /\ ultima' = Ultima("estadisticas", <<>>, "", 0, r.mensaje, FALSE, FALSE)
  /\ UNCHANGED <<tareas, disk, idCounter, ahora, pc, codigoSalida>>

\* Faulty variant: the answer to the confirmation is not looked at, the task
\* picked is removed and the collection saved
EliminarTareaSinConfirmar(sel, confirmar) ==
  /\ pc = "menu"
  /\ tareas # <<>>
  /\ sel \in 1..Len(tareas)
  /\ LET nuevas == SubSeq(tareas, 1, sel - 1) \o SubSeq(tareas, sel + 1, Len(tareas))
     IN /\ tareas' = nuevas
        /\ disk' = ArchivoJson(nuevas)
        /\ ultima' = Ultima("eliminar", <<>>, "", sel, "eliminada", TRUE, TRUE)
        /\ salida' = <<>>
        /\ UNCHANGED <<idCounter, ahora, pc, codigoSalida>>

\* Option 9, eliminarTarea: the user picks the task at position sel (sel = 0:
\* there is none) and answers the confirmation
EliminarTarea(sel, confirmar) ==
  /\ pc = "menu"
  /\ IF tareas = <<>>
     THEN /\ sel = 0
          /\ ~confirmar
          /\ ultima' = Ultima("eliminar", <<>>, "", 0, "sin_tareas", FALSE, FALSE)
          /\ salida' = <<>>
          /\ UNCHANGED <<tareas, disk, idCounter, ahora, pc, codigoSalida>>
     ELSE /\ sel \in 1..Len(tareas)
          /\ LET r == removePorId(tareas, ValorEleccion(tareas[sel]))
             IN IF ~confirmar
                THEN /\ ultima' = Ultima("eliminar", <<>>, "", sel, "cancelada", FALSE, FALSE)
                     /\ salida' = <<>>
                     /\ UNCHANGED <<tareas, disk, idCounter, ahora, pc, codigoSalida>>
                ELSE IF r.tipo = "TypeError"
                THEN Fatal("eliminar", <<>>, sel)
                ELSE \E resultado \in ResultadosEscritura :
                       LET g == persistirTareas(r.tareas, disk, resultado)
                       IN /\ tareas' = r.tareas
                          /\ disk' = g.archivo
                          /\ ultima' = Ultima("eliminar", <<>>, "", sel,
                                              "eliminada", TRUE, g.retorno)
                          /\ salida' = <<>>
                          /\ UNCHANGED <<idCounter, ahora, pc, codigoSalida>>

\* Option 10: salir; cerrarConexion is called, the loop ends and main returns
Salir ==
  /\ pc = "menu"
  /\ pc' = "terminado"
  /\ codigoSalida' = "0"
  /\ ultima' = ConCierre(Ultima("salir", <<>>, "", 0, "adios", FALSE, FALSE))
  /\ salida' = <<>>
  /\ UNCHANGED <<tareas, disk, idCounter, ahora>>

\* The program is started again: a new process, whose lodash counter starts
\* at 0 and whose main() begins with inicializarTareas(); an error thrown
\* there reaches main().catch
Iniciar ==
  /\ pc = "terminado"
  /\ LET r == inicializarTareas(disk)
     IN /\ tareas' = r.tareas
        /\ IF r.tipo = "TypeError"
           THEN /\ pc' = "terminado"
                /\ codigoSalida' = "1"
                /\ ultima' = ConCierre(Ultima("iniciar", <<>>, "", 0, "TypeError",
                                               FALSE, FALSE))
           ELSE /\ pc' = "menu"
                /\ codigoSalida' = "ninguno"
                /\ ultima' = Ultima("iniciar", <<>>, "", 0, "listo", FALSE, FALSE)
  /\ idCounter' = 0
  /\ salida' = <<>>
  /\ UNCHANGED <<disk, ahora>>

Next ==
  \/ Tick
  \/ \E entrada \in Entradas : AgregarTarea(entrada)
  \/ \E filtro \in Filtros : ListarTareas(filtro)
  \/ \E sel \in 0..MaxTareas : CompletarTarea(sel)
  \/ \E sel \in 0..MaxTareas, entrada \in Entradas : EditarTarea(sel, entrada)
  \/ \E termino \in Entradas : BuscarTareas(termino)
  \/ MostrarEstadisticas
  \/ \E sel \in 0..MaxTareas, confirmar \in BOOLEAN : EliminarTarea(sel, confirmar)
  \/ Salir
  \/ Iniciar

Spec == Init /\ [][Next]_vars

(***************************************************************************)
(* The Tarea entity on its own (SpecTarea): the methods of the class       *)
(* called on the tasks of the collection, and the listing. The CLI never   *)
(* calls marcarPendiente, and its completarTarea does not get as far as    *)
(* marcarCompletada, so the life cycle of a task is exercised here.        *)
(***************************************************************************)
\* Tarea.crearTarea(entrada) and tareas.push(nuevaTarea), for null, undefined
\* or a text that no task of the collection has yet
CrearTarea(entrada) ==
  /\ pc = "menu"
  /\ Len(tareas) < MaxTareas
  /\ IF EsNullish(entrada) THEN TRUE ELSE ~ExisteDescripcion(tareas, Trim(entrada))
  /\ LET c == crearTarea(entrada, idCounter, ahora)
     IN IF c.tipo = "Error"
        THEN /\ ultima' = Ultima("crearTarea", entrada, "", 0, "Error", FALSE, FALSE)
             /\ UNCHANGED <<tareas, idCounter>>
        ELSE /\ tareas' = Append(tareas, c.tarea)
             /\ idCounter' = idCounter + 1
             /\ ultima' = Ultima("crearTarea", entrada, "", Len(tareas) + 1,
                                 "creada", FALSE, FALSE)
  /\ salida' = <<>>
  /\ UNCHANGED <<disk, ahora, pc, codigoSalida>>

\* tareas[i].marcarCompletada()
MarcarCompletada(i) ==
  /\ pc = "menu"
  /\ i \in 1..Len(tareas)
  /\ tareas[i].clase = "Tarea"
  /\ tareas' = [tareas EXCEPT ![i] = marcarCompletada(@, ahora)]
  /\ ultima' = Ultima("marcarCompletada", <<>>, "", i, "hecho", FALSE, FALSE)
  /\ salida' = <<>>
  /\ UNCHANGED <<disk, idCounter, ahora, pc, codigoSalida>>

\* tareas[i].marcarPendiente()
MarcarPendiente(i) ==
  /\ pc = "menu"
  /\ i \in 1..Len(tareas)
  /\ tareas[i].clase = "Tarea"
  /\ tareas' = [tareas EXCEPT ![i] = marcarPendiente(@)]
  /\ ultima' = Ultima("marcarPendiente", <<>>, "", i,
                      IF Tiene(tareas[i], "fechaCompletada") THEN "fecha_eliminada" ELSE "sin_fecha",
                      FALSE, FALSE)
  /\ salida' = <<>>
  /\ UNCHANGED <<disk, idCounter, ahora, pc, codigoSalida>>

NextTarea ==
  \/ Tick
  \/ \E entrada \in Entradas \cup {Nulo, Indefinido} : CrearTarea(entrada)
  \/ \E i \in 1..MaxTareas : MarcarCompletada(i)
  \/ \E i \in 1..MaxTareas : MarcarPendiente(i)
  \/ \E filtro \in Filtros : ListarTareas(filtro)

SpecTarea == Init /\ [][NextTarea]_vars

(***************************************************************************)
(* Saving and reloading on their own (SpecIdaVuelta): persistirTareas and  *)
(* inicializarTareas applied to any small collection of tasks.             *)
(***************************************************************************)
\* The tasks the class can build and complete: pending, or completed at some
\* reading of the clock
TareasPosibles ==
  LET base == { [ clase |-> "Tarea", id |-> uniqueId("tarea_", n),
                  descripcion |-> <<"A", "b">>, completada |-> FALSE,
                  fechaCreacion |-> f ] : n \in 0..1, f \in 0..MaxReloj }
  IN base \cup { marcarCompletada(t, f) : t \in base, f \in 0..MaxReloj }

MaxColeccion == 2

Colecciones == UNION { [1..n -> TareasPosibles] : n \in 0..MaxColeccion }

InitIdaVuelta ==
  /\ tareas \in Colecciones
  /\ disk = ArchivoAusente
  /\ idCounter = 0
  /\ ahora = 0
  /\ pc = "menu"
  /\ codigoSalida = "ninguno"
  /\ ultima = Ultima("iniciar", <<>>, "", 0, "listo", FALSE, FALSE)
  /\ salida = <<>>

\* persistirTareas()
Persistir(resultado) ==
  /\ pc = "menu"
  /\ LET g == persistirTareas(tareas, disk, resultado)
     IN /\ disk' = g.archivo
        /\ ultima' = Ultima("persistir", <<>>, "", 0, resultado, TRUE, g.retorno)
  /\ UNCHANGED <<tareas, idCounter, ahora, pc, codigoSalida, salida>>

\* Faulty variant: the collection is not emptied before it is filled
InicializarSinLimpiar ==
  /\ pc = "menu"
  /\ LET r == inicializarTareas(disk)
     IN /\ tareas' = tareas \o r.tareas
        /\ ultima' = Ultima("inicializar", <<>>, "", 0, "listo", FALSE, FALSE)
  /\ UNCHANGED <<disk, idCounter, ahora, pc, codigoSalida, salida>>

\* inicializarTareas() called on the collection as it is
Inicializar ==
  /\ pc = "menu"
  /\ LET r == inicializarTareas(disk)
     IN /\ tareas' = r.tareas
        /\ ultima' = Ultima("inicializar", <<>>, "", 0,
                            IF r.tipo = "TypeError" THEN "TypeError" ELSE "listo",
                            FALSE, FALSE)
  /\ UNCHANGED <<disk, idCounter, ahora, pc, codigoSalida, salida>>

NextIdaVuelta ==
  \/ \E resultado \in ResultadosEscritura : Persistir(resultado)
  \/ Inicializar

SpecIdaVuelta == InitIdaVuelta /\ [][NextIdaVuelta]_vars

(***************************************************************************)
(* Starting the program on any data file (SpecCarga): the file is whatever *)
(* was left in data/tareas.json, by the program or by anything else.       *)
(***************************************************************************)
\* JSON values that are not arrays of task objects
ValoresAjenos ==
  { ValorObject, ValorNull, ValorNumber,
    ValorString(<<"a", "b">>), ValorString(<<>>),
    ValorArray(<<7>>), ValorArray(<<"a", 7>>) }

Archivos ==
  {ArchivoAusente, ArchivoIlegible, ArchivoCorrupto}
    \cup {ArchivoJson(ts) : ts \in Colecciones}
    \cup {ArchivoValor(v) : v \in ValoresAjenos}

\* No process is running; the file holds anything
InitCarga ==
  /\ tareas = <<>>
  /\ disk \in Archivos
  /\ idCounter = 0
  /\ ahora = 0
  /\ pc = "terminado"
  /\ codigoSalida = "0"
  /\ ultima = ConCierre(Ultima("salir", <<>>, "", 0, "adios", FALSE, FALSE))
  /\ salida = <<>>

NextCarga ==
  \/ Iniciar
  \/ Salir

SpecCarga == InitCarga /\ [][NextCarga]_vars

(***************************************************************************)
(* The statistics on their own (SpecEstadisticas): mostrarEstadisticas on  *)
(* any small collection of pending and completed tasks created on several  *)
(* days.                                                                   *)
(***************************************************************************)
MaxEstadisticas == 3
MaxFecha == 3

\* Tasks as the statistics see them: created at some reading, pending or
\* completed
TareasFechadas ==
  LET base == { [ clase |-> "Tarea", id |-> uniqueId("tarea_", 0),
                  descripcion |-> <<"a">>, completada |-> FALSE,
                  fechaCreacion |-> f ] : f \in 0..MaxFecha }
  IN base \cup { marcarCompletada(t, MaxFecha) : t \in base }

ColeccionesFechadas == UNION { [1..n -> TareasFechadas] : n \in 0..MaxEstadisticas }

InitEstadisticas ==
  /\ tareas \in ColeccionesFechadas
  /\ disk = ArchivoAusente
  /\ idCounter = 0
  /\ ahora = MaxFecha
  /\ pc = "menu"
  /\ codigoSalida = "ninguno"
  /\ ultima = Ultima("iniciar", <<>>, "", 0, "listo", FALSE, FALSE)
  /\ salida = <<>>

NextEstadisticas == MostrarEstadisticas

SpecEstadisticas == InitEstadisticas /\ [][NextEstadisticas]_vars

(***************************************************************************)
(* Two processes of the program on the same data file (SpecDos). Each      *)
(* variable but disk and ahora holds one value per process. A process      *)
(* starts, which loads the file, and adds one task, which saves it.        *)
(***************************************************************************)
Procesos == {1, 2}

InitDos ==
  /\ tareas = [p \in Procesos |-> <<>>]
  /\ disk \in {ArchivoAusente} \cup {ArchivoJson(ts) : ts \in [1..1 -> TareasPosibles]}
  /\ idCounter = [p \in Procesos |-> 0]
  /\ ahora = 0
  /\ pc = [p \in Procesos |-> "terminado"]
  /\ codigoSalida = [p \in Procesos |-> "0"]
  /\ ultima = [p \in Procesos |->
                 ConCierre(Ultima("salir", <<>>, "", 0, "adios", FALSE, FALSE))]
  /\ salida = [p \in Procesos |-> <<>>]

\* Process p is started: main() begins with inicializarTareas()
IniciarEn(p) ==
  /\ pc[p] = "terminado"
  /\ ultima[p].op = "salir"
  /\ LET r == inicializarTareas(disk)
     IN /\ tareas' = [tareas EXCEPT ![p] = r.tareas]
        /\ pc' = [pc EXCEPT ![p] = IF r.tipo = "TypeError" THEN "terminado" ELSE "menu"]
        /\ codigoSalida' = [codigoSalida EXCEPT ![p] =
                              IF r.tipo = "TypeError" THEN "1" ELSE "ninguno"]
        /\ ultima' = [ultima EXCEPT ![p] =
                        IF r.tipo = "TypeError"
                        THEN ConCierre(Ultima("iniciar", <<>>, "", 0, "TypeError",
                                              FALSE, FALSE))
                        ELSE Ultima("iniciar", <<>>, "", 0, "listo", FALSE, FALSE)]
  /\ idCounter' = [idCounter EXCEPT ![p] = 0]
  /\ UNCHANGED <<disk, ahora, salida>>

\* Faulty variant: the save writes the records of the file followed by the
\* new task, instead of the collection of the process
AgregarEnFusionando(p, entrada) ==
  /\ pc[p] \in {"menu", "agregar"}
  /\ validarAgregar(tareas[p], entrada) = "true"
  /\ LET c == crearTarea(entrada, idCounter[p], ahora)
         nuevas == Append(tareas[p], c.tarea)
     IN /\ tareas' = [tareas EXCEPT ![p] = nuevas]
        /\ idCounter' = [idCounter EXCEPT ![p] = @ + 1]
        /\ disk' = ArchivoJson(inicializarTareas(disk).tareas \o <<c.tarea>>)
        /\ pc' = [pc EXCEPT ![p] = "hecho"]
        /\ ultima' = [ultima EXCEPT ![p] =
                        Ultima("agregar", entrada, "", Len(nuevas), "agregada", TRUE, TRUE)]
  /\ UNCHANGED <<ahora, codigoSalida, salida>>

\* Process p runs agregarTarea with the answer entrada; once a task is added
\* the process adds no more
AgregarEn(p, entrada) ==
  /\ pc[p] \in {"menu", "agregar"}
  /\ UNCHANGED <<ahora, codigoSalida, salida>>
  /\ LET v == validarAgregar(tareas[p], entrada)
         c == crearTarea(entrada, idCounter[p], ahora)
     IN IF v # "true"
        THEN /\ pc' = [pc EXCEPT ![p] = "agregar"]
             /\ ultima' = [ultima EXCEPT ![p] =
                             Ultima("agregar", entrada, "", 0, v, FALSE, FALSE)]
             /\ UNCHANGED <<tareas, disk, idCounter>>
        ELSE IF c.tipo = "Error"
        THEN /\ pc' = [pc EXCEPT ![p] = "menu"]
             /\ ultima' = [ultima EXCEPT ![p] =
                             Ultima("agregar", entrada, "", 0, "Error", FALSE, FALSE)]
             /\ UNCHANGED <<tareas, disk, idCounter>>
        ELSE \E resultado \in ResultadosEscritura :
               LET nuevas == Append(tareas[p], c.tarea)
                   g == persistirTareas(nuevas, disk, resultado)
               IN /\ tareas' = [tareas EXCEPT ![p] = nuevas]
                  /\ idCounter' = [idCounter EXCEPT ![p] = @ + 1]
                  /\ disk' = g.archivo
                  /\ pc' = [pc EXCEPT ![p] = "hecho"]
                  /\ ultima' = [ultima EXCEPT ![p] =
                                  Ultima("agregar", entrada, "", Len(nuevas),
                                         "agregada", TRUE, g.retorno)]

NextDos ==
  \/ \E p \in Procesos : IniciarEn(p)
  \/ \E p \in Procesos, entrada \in Entradas : AgregarEn(p, entrada)

SpecDos == InitDos /\ [][NextDos]_vars

(***************************************************************************)
(* The program resumed on a data file that holds a collection, with        *)
(* completed tasks among the pending ones (SpecReanudar).                  *)
(***************************************************************************)
InitReanudar ==
  /\ tareas = <<>>
  /\ disk \in {ArchivoJson(ts) : ts \in Colecciones}
  /\ idCounter = 0
  /\ ahora = MaxReloj
  /\ pc = "terminado"
  /\ codigoSalida = "0"
  /\ ultima = ConCierre(Ultima("salir", <<>>, "", 0, "adios", FALSE, FALSE))
  /\ salida = <<>>

NextReanudar ==
  \/ Iniciar
  \/ Salir
  \/ \E filtro \in Filtros : ListarTareas(filtro)
  \/ \E sel \in 0..MaxColeccion : CompletarTarea(sel)

SpecReanudar == InitReanudar /\ [][NextReanudar]_vars

(***************************************************************************)
(* Vocabulary of the properties, stated without the program's operators.   *)
(***************************************************************************)
\* s is empty or holds blanks only
SoloBlancos(s) == \A i \in 1..Len(s) : s[i] = " "

\* s without its leading and trailing blanks: what lies between its first
\* and its last character that is not a blank
Recorte(s) ==
  LET llenos == {k \in 1..Len(s) : s[k] # " "}
  IN IF llenos = {} THEN <<>>
     ELSE SubSeq(s, CHOOSE k \in llenos : \A m \in llenos : k <= m,
                    CHOOSE k \in llenos : \A m \in llenos : k >= m)

\* a and b are the same text but for the case of their letters
IgualSinCaja(a, b) ==
  /\ Len(a) = Len(b)
  /\ \A i \in 1..Len(a) : MinusculaDe(a[i]) = MinusculaDe(b[i])

\* a and b are duplicates: equal once trimmed, ignoring case
Duplicadas(a, b) == IgualSinCaja(Recorte(a), Recorte(b))

\* Some task of the collection is a duplicate of the text
YaPresente(ts, texto) == \E i \in 1..Len(ts) : Duplicadas(ts[i].descripcion, texto)

(***************************************************************************)
(* Properties of the process (Spec).                                       *)
(***************************************************************************)
\* C1: in every reachable state no two distinct tasks of the collection have
\* descriptions that are equal after trimming and lower-casing.
C1_SinDuplicados ==
  \A i, j \in 1..Len(tareas) :
    i # j => ~Duplicadas(tareas[i].descripcion, tareas[j].descripcion)

\* Reached: a collection of two tasks on which a third, duplicate text was refused
C1_Testigo ==
  /\ Len(tareas) >= 2
  /\ ultima.op = "agregar"
  /\ ultima.mensaje = "duplicada"

\* C2: in every reachable state of the collection, also after persisting,
\* restarting (inicializarTareas reloads the file) and adding, the ids of the
\* tasks are pairwise distinct.
C2_IdsDistintos ==
  \A i, j \in 1..Len(tareas) : i # j => tareas[i].id # tareas[j].id

\* C3: once a mutating operation has completed with a successful save, the
\* file holds exactly the records of the in-memory collection.
C3_ArchivoIgualAMemoria ==
  (ultima.persistio /\ ultima.guardado) =>
    /\ disk.tipo = "json"
    /\ Len(disk.contenido) = Len(tareas)
    /\ \A i \in 1..Len(tareas) :
         /\ DOMAIN disk.contenido[i] = DOMAIN tareas[i] \ {"clase"}
         /\ \A k \in DOMAIN disk.contenido[i] : disk.contenido[i][k] = tareas[i][k]

\* Reached: a second task was added to a reloaded collection and saved
C3_Testigo ==
  /\ ultima.persistio
  /\ ultima.guardado
  /\ Len(tareas) >= 2
  /\ tareas[1].clase = "Object"

\* C5: agregarTarea with a text that is not blank and not a duplicate of any
\* task appends exactly one task, which is pending, has no fechaCompletada
\* and stores the trimmed text.
C5_AgregarAgregaUna ==
  [][ \A e \in Entradas :
        (AgregarTarea(e) /\ ~SoloBlancos(e) /\ ~YaPresente(tareas, e)) =>
          /\ Len(tareas') = Len(tareas) + 1
          /\ SubSeq(tareas', 1, Len(tareas)) = tareas
          /\ ~tareas'[Len(tareas')].completada
          /\ ~Tiene(tareas'[Len(tareas')], "fechaCompletada")
          /\ tareas'[Len(tareas')].descripcion = Recorte(e) ]_vars

\* Reached: a padded text was added as the second task
C5_Testigo ==
  /\ ultima.op = "agregar"
  /\ ultima.mensaje = "agregada"
  /\ ultima.entrada = <<" ", "a", " ">>
  /\ Len(tareas) = 2

\* C6: agregarTarea with a text that duplicates an existing description
\* (ignoring case and surrounding blanks) is refused as a duplicate: the
\* collection and the file are unchanged and persistirTareas is not called.
C6_DuplicadaRechazada ==
  [][ \A e \in Entradas :
        (AgregarTarea(e) /\ ~SoloBlancos(e) /\ YaPresente(tareas, e)) =>
          /\ tareas' = tareas
          /\ disk' = disk
          /\ idCounter' = idCounter
          /\ ultima'.mensaje = "duplicada"
          /\ ~ultima'.persistio ]_vars

\* Reached: a text refused as duplicate that is not literally the stored one
C6_Testigo ==
  /\ ultima.op = "agregar"
  /\ ultima.mensaje = "duplicada"
  /\ \A i \in 1..Len(tareas) : tareas[i].descripcion # ultima.entrada

\* C7: agregarTarea with an empty or blank text fails validation, changes
\* neither the collection nor the file and does not call persistirTareas;
\* and no task of the collection ever has an empty or blank description.
C7_VaciaRechazada ==
  /\ [][ \A e \in Entradas :
           (AgregarTarea(e) /\ SoloBlancos(e)) =>
             /\ tareas' = tareas
             /\ disk' = disk
             /\ idCounter' = idCounter
             /\ ultima'.mensaje = "vacia"
             /\ ~ultima'.persistio ]_vars
  /\ [](\A i \in 1..Len(tareas) : ~SoloBlancos(tareas[i].descripcion))

\* Reached: a blank (not empty) text refused on a collection that holds tasks
C7_Testigo ==
  /\ ultima.op = "agregar"
  /\ ultima.mensaje = "vacia"
  /\ ultima.entrada = <<" ", " ">>
  /\ Len(tareas) >= 1

\* C9: once completarTarea has been applied to a pending task, listing the
\* pending tasks excludes it, listing the completed ones includes it, and its
\* fechaCompletada is not before its fechaCreacion.
C9_CompletadaSeLista ==
  (ultima.op = "completar" /\ ultima.sel # 0) =>
    LET t == tareas[ultima.sel]
    IN /\ t.completada
       /\ Tiene(t, "fechaCompletada")
       /\ t.fechaCompletada >= t.fechaCreacion
       /\ \E k \in 1..Len(listarTareas(tareas, "completadas").lista) :
            listarTareas(tareas, "completadas").lista[k] = t
       /\ \A k \in 1..Len(listarTareas(tareas, "pendientes").lista) :
            listarTareas(tareas, "pendientes").lista[k] # t

\* Some task of the collection other than the one at position sel is a
\* duplicate of the text
OtraDuplicada(ts, sel, texto) ==
  \E j \in 1..Len(ts) : j # sel /\ Duplicadas(ts[j].descripcion, texto)

\* The collection without its task at position sel
SinLaDe(ts, sel) ==
  [i \in 1..(Len(ts) - 1) |-> IF i < sel THEN ts[i] ELSE ts[i + 1]]

\* C11: editarTarea on the task at position sel with a text that is valid
\* (not blank, not a duplicate of another task) changes only the descripcion
\* of that task, to the trimmed text: its id, fechaCreacion, completada and
\* fechaCompletada, every other task, and the size and order of the
\* collection are unchanged.
C11_EditarCambiaSoloDescripcion ==
  [][ \A sel \in 1..MaxTareas, e \in Entradas :
        ( /\ sel <= Len(tareas)
          /\ EditarTarea(sel, e)
          /\ ~SoloBlancos(e)
          /\ ~OtraDuplicada(tareas, sel, e) ) =>
            tareas' = [tareas EXCEPT ![sel].descripcion = Recorte(e)] ]_vars

\* C12: editarTarea on the task at position sel with a text that duplicates
\* the descripcion of another task is refused as a duplicate and leaves the
\* collection unchanged; a text that duplicates only the descripcion of the
\* edited task itself is accepted.
C12_EditarDuplicadaRechazada ==
  [][ \A sel \in 1..MaxTareas, e \in Entradas :
        ( /\ sel <= Len(tareas)
          /\ EditarTarea(sel, e)
          /\ ~SoloBlancos(e) ) =>
            IF OtraDuplicada(tareas, sel, e)
            THEN ultima'.mensaje = "duplicada" /\ tareas' = tareas
            ELSE Duplicadas(tareas[sel].descripcion, e) =>
                   ultima'.mensaje = "actualizada" ]_vars

\* C13: editarTarea with an empty or blank text fails validation: the
\* collection and the file are unchanged and persistirTareas is not called.
C13_EditarVaciaRechazada ==
  [][ \A sel \in 1..MaxTareas, e \in Entradas :
        ( /\ sel <= Len(tareas)
          /\ EditarTarea(sel, e)
          /\ SoloBlancos(e) ) =>
            /\ ultima'.mensaje = "vacia"
            /\ tareas' = tareas
            /\ disk' = disk
            /\ ~ultima'.persistio ]_vars

\* C14: a confirmed eliminarTarea on the task at position sel removes that
\* task and no other: the collection is one shorter, the other tasks keep
\* their fields and relative order, and the new collection is persisted.
C14_EliminarQuitaUna ==
  [][ \A sel \in 1..MaxTareas :
        (sel <= Len(tareas) /\ EliminarTarea(sel, TRUE)) =>
          /\ tareas' = SinLaDe(tareas, sel)
          /\ ultima'.persistio
          /\ ultima'.guardado => disk' = ArchivoJson(tareas') ]_vars

\* C15: eliminarTarea on a selected task whose confirmation is answered "no"
\* reports the cancellation and changes neither the collection nor the file,
\* and persistirTareas is not called.
C15_SinConfirmarNoElimina ==
  [][ \A sel \in 1..MaxTareas :
        (sel <= Len(tareas) /\ ultima'.op = "eliminar" /\ EliminarTarea(sel, FALSE)) =>
          /\ tareas' = tareas
          /\ disk' = disk
          /\ ~ultima'.persistio
          /\ ultima'.mensaje = "cancelada"
          /\ pc' = "menu" ]_vars

\* Reached: the deletion of one of two saved tasks was cancelled
C15_Testigo ==
  /\ ultima.op = "eliminar"
  /\ ultima.mensaje = "cancelada"
  /\ ultima.sel = 2
  /\ Len(tareas) = 2
  /\ disk.tipo = "json"

\* C19 (as amended): when the save of agregarTarea fails, persistirTareas
\* returns false without raising, the task just added stays in the
\* collection, the menu is open again, and the file is either as it was
\* before (the write was refused) or truncated and unreadable (the write
\* failed once the file was open), from which a start loads no task.
C19_FalloAlGuardar ==
  [][ \A e \in Entradas :
        (ultima'.persistio /\ ~ultima'.guardado /\ AgregarTarea(e)) =>
          /\ Len(tareas') = Len(tareas) + 1
          /\ SubSeq(tareas', 1, Len(tareas)) = tareas
          /\ tareas'[Len(tareas')].descripcion = Recorte(e)
          /\ pc' = "menu"
          /\ codigoSalida' = "ninguno"
          /\ \/ disk' = disk
             \/ /\ disk'.tipo = "corrupto"
                /\ inicializarTareas(disk') = [tipo |-> "ok", tareas |-> <<>>] ]_vars

\* Reached: the save of a second task failed and left the file, which held
\* the first task, unreadable
C19_Testigo ==
  /\ ultima.op = "agregar"
  /\ ultima.persistio
  /\ ~ultima.guardado
  /\ Len(tareas) = 2
  /\ tareas[1].clase = "Object"
  /\ disk.tipo = "corrupto"
  /\ pc = "menu"

\* C19 (as claimed): when the save of agregarTarea fails, persistirTareas
\* returns false without raising, the task just added stays in the
\* collection, the menu is open again, and the file is as it was before the
\* failed save.
C19_ArchivoIntacto ==
  [][ \A e \in Entradas :
        (ultima'.persistio /\ ~ultima'.guardado /\ AgregarTarea(e)) =>
          /\ Len(tareas') = Len(tareas) + 1
          /\ pc' = "menu"
          /\ codigoSalida' = "ninguno"
          /\ disk' = disk ]_vars

\* C20: the id given to a newly created task was not given before to a task
\* created earlier; in particular it is the id of no task the collection
\* holds, also when those were reloaded from the file by a new process.
C20_IdNoReutilizado ==
  [][ \A e \in Entradas :
        (AgregarTarea(e) /\ Len(tareas') = Len(tareas) + 1) =>
          \A i \in 1..Len(tareas) : tareas[i].id # tareas'[Len(tareas')].id ]_vars

\* C26: whenever the process has ended, by the exit option or by an error
\* that no handler caught, cerrarConexion was called before it ended; and
\* when it ended on such an error its exit status is not zero.
C26_CierreEnTodaSalida ==
  pc = "terminado" =>
    /\ Tiene(ultima, "cierre")
    /\ ultima.op = "salir" => codigoSalida = "0"
    /\ ultima.op # "salir" => ultima.mensaje = "TypeError" /\ codigoSalida = "1"

\* Reached: the process ended on the error of a confirmed deletion, after
\* an earlier run had ended by the exit option
C26_Testigo ==
  /\ pc = "terminado"
  /\ ultima.op = "eliminar"
  /\ codigoSalida = "1"
  /\ Tiene(ultima, "cierre")
  /\ Len(tareas) >= 1
  /\ tareas[1].clase = "Object"

\* The value the selection prompt yields for the task at position sel is
\* undefined, which is the id of no task of the collection
SeleccionAusente(ts, sel) == ~Tiene(ts[sel], "_id")

\* C27: an edit, a completion or a confirmed deletion whose selected value is
\* the id of no task of the collection fails with a NotFoundError and leaves
\* the collection and the file unchanged.
C27_IdAusenteNoEncontrada ==
  [][ \A sel \in 1..MaxTareas :
        ( /\ sel <= Len(tareas)
          /\ ultima'.op \in {"editar", "completar", "eliminar"}
          /\ SeleccionAusente(tareas, sel)
          /\ \/ \E e \in Entradas : EditarTarea(sel, e)
             \/ CompletarTarea(sel)
             \/ EliminarTarea(sel, TRUE) ) =>
            /\ ultima'.mensaje = "NotFoundError"
            /\ tareas' = tareas
            /\ disk' = disk ]_vars

\* C30: for every task of the collection, created in this run or loaded at
\* the start, the value the selection prompts yield is the id the task
\* carries, the lookup by that value finds that very task, and no edit,
\* completion or deletion ends on an error of the lookup.
C30_BusquedaPorId ==
  /\ \A i \in 1..Len(tareas) :
       FindPorId(tareas, ValorEleccion(tareas[i]), 1) = [tipo |-> "encontrada", i |-> i]
  /\ ultima.op \in {"editar", "completar", "eliminar"} =>
       ultima.mensaje # "TypeError" /\ pc # "terminado"

(***************************************************************************)
(* Properties of the entity (SpecTarea) and of the round trip              *)
(* (SpecIdaVuelta).                                                        *)
(***************************************************************************)
\* Two tasks carry the same data: id, descripcion, completada, fechaCreacion,
\* and fechaCompletada, absent in one exactly when absent in the other
MismosDatos(t, u) ==
  /\ t.id = u.id
  /\ t.descripcion = u.descripcion
  /\ t.completada = u.completada
  /\ t.fechaCreacion = u.fechaCreacion
  /\ Tiene(t, "fechaCompletada") = Tiene(u, "fechaCompletada")
  /\ Tiene(t, "fechaCompletada") => t.fechaCompletada = u.fechaCompletada

\* C4: a successful persistirTareas followed by inicializarTareas on a fresh
\* instance rebuilds the collection, task by task, with the same id,
\* descripcion, completada, fechaCreacion and fechaCompletada (absent exactly
\* where it was absent).
C4_IdaVuelta ==
  [][ (Inicializar /\ ultima.op = "persistir" /\ ultima.guardado) =>
        /\ Len(tareas') = Len(tareas)
        /\ \A i \in 1..Len(tareas) : MismosDatos(tareas'[i], tareas[i]) ]_vars

\* Reached: a collection of a pending and a completed task of the class was
\* saved and reloaded as plain objects
C4_Testigo ==
  /\ ultima.op = "inicializar"
  /\ disk.tipo = "json"
  /\ Len(tareas) = 2
  /\ tareas[1].clase = "Object"
  /\ ~tareas[1].completada
  /\ ~Tiene(tareas[1], "fechaCompletada")
  /\ tareas[2].completada
  /\ Tiene(tareas[2], "fechaCompletada")

\* C8: in every reachable state a task has fechaCompletada exactly when it is
\* completada: marcarCompletada sets both, marcarPendiente clears the flag and
\* removes the field, and a new task has neither.
C8_FechaSiiCompletada ==
  /\ \A i \in 1..Len(tareas) :
       Tiene(tareas[i], "fechaCompletada") <=> tareas[i].completada
  /\ ultima.op = "marcarCompletada" =>
       tareas[ultima.sel].completada /\ Tiene(tareas[ultima.sel], "fechaCompletada")
  /\ ultima.op = "marcarPendiente" =>
       ~tareas[ultima.sel].completada /\ ~Tiene(tareas[ultima.sel], "fechaCompletada")
  /\ (ultima.op = "crearTarea" /\ ultima.sel # 0) =>
       ~tareas[ultima.sel].completada /\ ~Tiene(tareas[ultima.sel], "fechaCompletada")

\* Reached: beside a completed task, a task that was completed is pending again
C8_Testigo ==
  /\ ultima.op = "marcarPendiente"
  /\ ultima.mensaje = "fecha_eliminada"
  /\ \E i \in 1..Len(tareas) : tareas[i].completada

\* The permutations of 1..n, and a collection taken in another order
Permutaciones(n) == {p \in [1..n -> 1..n] : \A i, j \in 1..n : p[i] = p[j] => i = j}

Permutar(ts, p) == [i \in 1..Len(ts) |-> ts[p[i]]]

\* The task passes the filter
Coincide(t, filtro) ==
  \/ filtro = "todas"
  \/ filtro = "completadas" /\ t.completada
  \/ filtro = "pendientes" /\ ~t.completada

\* lista holds exactly the tasks of ts that pass the filter
ExactamenteLasFiltradas(lista, ts, filtro) ==
  /\ Len(lista) = Cardinality({i \in 1..Len(ts) : Coincide(ts[i], filtro)})
  /\ \A k \in 1..Len(lista) : Coincide(lista[k], filtro)
  /\ \A i \in 1..Len(ts) : Coincide(ts[i], filtro) => \E k \in 1..Len(lista) : lista[k] = ts[i]

\* Pending tasks come before completed ones and, within each group, a task
\* created later comes before one created earlier
PendientesYRecientesPrimero(lista) ==
  \A k, m \in 1..Len(lista) :
    k < m =>
      /\ lista[k].completada => lista[m].completada
      /\ lista[k].completada = lista[m].completada =>
           lista[k].fechaCreacion >= lista[m].fechaCreacion

\* Tasks of the same group created at the same instant keep the order they
\* have in the collection
EmpatesEnOrdenDeColeccion(lista, ts) ==
  \A k, m \in 1..Len(lista) :
    ( /\ k < m
      /\ lista[k].completada = lista[m].completada
      /\ lista[k].fechaCreacion = lista[m].fechaCreacion ) =>
        \E i, j \in 1..Len(ts) : i < j /\ ts[i] = lista[k] /\ ts[j] = lista[m]

\* C10 (as amended): for each filter, and whatever the order of the
\* collection, listarTareas prints exactly the tasks that pass the filter,
\* pending before completed and within each group newest first; tasks of the
\* same group with equal fechaCreacion are printed in collection order.
C10_ListadoOrdenado ==
  /\ ultima.op = "listar" =>
       /\ ExactamenteLasFiltradas(salida, tareas, ultima.filtro)
       /\ PendientesYRecientesPrimero(salida)
       /\ EmpatesEnOrdenDeColeccion(salida, tareas)
  /\ \A filtro \in Filtros, p \in Permutaciones(Len(tareas)) :
       LET ts == Permutar(tareas, p)
           lista == listarTareas(ts, filtro).lista
       IN /\ ExactamenteLasFiltradas(lista, ts, filtro)
          /\ PendientesYRecientesPrimero(lista)
          /\ EmpatesEnOrdenDeColeccion(lista, ts)

\* Reached: A (pending, created first), B (completed) and C (pending, created
\* later), inserted in that order, were listed as C, A, B
C10_Testigo ==
  /\ ultima.op = "listar"
  /\ ultima.filtro = "todas"
  /\ Len(tareas) = 3
  /\ ~tareas[1].completada /\ tareas[2].completada /\ ~tareas[3].completada
  /\ tareas[3].fechaCreacion > tareas[1].fechaCreacion
  /\ salida = <<tareas[3], tareas[1], tareas[2]>>

\* C10 (as claimed): for each filter listarTareas prints exactly the tasks
\* that pass the filter, pending before completed and within each group
\* newest first, and what it prints does not depend on the order in which the
\* tasks were inserted in the collection.
C10_IndependienteDeInsercion ==
  \A filtro \in Filtros, p \in Permutaciones(Len(tareas)) :
    LET ts == Permutar(tareas, p)
        lista == listarTareas(ts, filtro).lista
    IN /\ ExactamenteLasFiltradas(lista, ts, filtro)
       /\ PendientesYRecientesPrimero(lista)
       /\ lista = listarTareas(tareas, filtro).lista

(***************************************************************************)
(* Properties of the search (Spec).                                        *)
(***************************************************************************)
\* The text holds the term somewhere, ignoring the case of the letters
Contiene(texto, termino) ==
  \E k \in 0..(Len(texto) - Len(termino)) :
    \A i \in 1..Len(termino) : MinusculaDe(texto[k + i]) = MinusculaDe(termino[i])

\* C16: buscarTareas with a term that is not blank prints exactly the tasks
\* whose descripcion contains the trimmed term ignoring case, in the order
\* they have in the collection (no sorting).
C16_BusquedaEnOrdenDeColeccion ==
  (ultima.op = "buscar" /\ ~SoloBlancos(ultima.entrada)) =>
    LET coinciden == {i \in 1..Len(tareas) :
                       Contiene(tareas[i].descripcion, Recorte(ultima.entrada))}
    IN /\ Len(salida) = Cardinality(coinciden)
       /\ \A i \in coinciden :
            salida[Cardinality({j \in coinciden : j <= i})] = tareas[i]

\* Reached: of three tasks, a padded term in another case found the first
\* and the last, the last one created later than the first
C16_Testigo ==
  /\ ultima.op = "buscar"
  /\ ultima.entrada = <<" ", "a", " ">>
  /\ Len(tareas) = 3
  /\ tareas[1].descripcion = <<"A">>
  /\ tareas[3].fechaCreacion > tareas[1].fechaCreacion
  /\ salida = <<tareas[1], tareas[3]>>

\* C17: buscarTareas prints its matches in the order the listing uses:
\* pending tasks first, then by fechaCreacion, newest first.
C17_BusquedaOrdenada ==
  (ultima.op = "buscar" /\ ultima.mensaje = "encontradas") =>
    salida = listarTareas(salida, "todas").lista

(***************************************************************************)
(* Properties of the start of the program (SpecCarga).                     *)
(***************************************************************************)
\* C18: whenever the program has started on a file that is missing,
\* unreadable, not JSON, or JSON that is not an array of task objects, the
\* start did not raise (the menu is open) and the collection is empty.
C18_InicioTolerante ==
  (ultima.op = "iniciar" /\ disk.tipo # "json") =>
    /\ pc = "menu"
    /\ ultima.mensaje = "listo"
    /\ tareas = <<>>

(***************************************************************************)
(* Properties of creating a task (SpecTarea) and of completing one in a    *)
(* resumed session (SpecReanudar).                                         *)
(***************************************************************************)
\* C28: validarDescripcion(d) is true exactly when d is a text that is not
\* empty once trimmed, and false, with nothing raised, for null and
\* undefined; crearTarea(d) throws exactly when validarDescripcion(d) is
\* false, and otherwise gives a pending task with the trimmed text.
C28_ValidarYCrear ==
  /\ [](\A d \in Entradas \cup {Nulo, Indefinido} :
          validarDescripcion(d) <=> (d \in Entradas /\ ~SoloBlancos(d)))
  /\ [][ \A d \in Entradas \cup {Nulo, Indefinido} :
           (ultima'.op = "crearTarea" /\ CrearTarea(d)) =>
             IF d \in Entradas /\ ~SoloBlancos(d)
             THEN /\ ultima'.mensaje = "creada"
                  /\ Len(tareas') = Len(tareas) + 1
                  /\ tareas'[Len(tareas')].descripcion = Recorte(d)
                  /\ ~tareas'[Len(tareas')].completada
             ELSE /\ ultima'.mensaje = "Error"
                  /\ tareas' = tareas ]_vars

\* Reached: crearTarea(null) threw on a collection that holds a task
C28_Testigo ==
  /\ ultima.op = "crearTarea"
  /\ ultima.mensaje = "Error"
  /\ ultima.entrada = Nulo
  /\ Len(tareas) >= 1

\* C29: completarTarea is applied only to a task that is pending: the task
\* picked is never a completed one, and no task that is completed is touched
\* by it, so no fechaCompletada is ever set a second time.
C29_SoloPendientes ==
  [][ \A sel \in 1..MaxColeccion :
        (sel <= Len(tareas) /\ ultima'.op = "completar" /\ CompletarTarea(sel)) =>
          /\ ~tareas[sel].completada
          /\ Len(tareas') = Len(tareas)
          /\ \A i \in 1..Len(tareas) : tareas[i].completada => tareas'[i] = tareas[i] ]_vars

\* Reached: of a completed and a pending task loaded from the file,
\* completarTarea was run on the pending one
C29_Testigo ==
  /\ ultima.op = "completar"
  /\ ultima.sel = 2
  /\ Len(tareas) = 2
  /\ tareas[1].completada
  /\ ~tareas[2].completada

\* C31: a pending task that an earlier run saved and inicializarTareas has
\* loaded can be completed in this run: completarTarea on it succeeds, the
\* task becomes completed with a fechaCompletada, nothing else of the
\* collection changes, persistirTareas is called and, when the write
\* succeeds, the file holds the collection.
C31_CargadaSeCompleta ==
  [][ \A sel \in 1..MaxColeccion :
        (/\ sel <= Len(tareas)
         /\ ultima'.op = "completar"
         /\ CompletarTarea(sel)
         /\ tareas[sel].clase = "Object") =>
          /\ ultima'.mensaje = "completada"
          /\ pc' = "menu"
          /\ Len(tareas') = Len(tareas)
          /\ tareas'[sel].completada
          /\ Tiene(tareas'[sel], "fechaCompletada")
          /\ \A i \in 1..Len(tareas) : i # sel => tareas'[i] = tareas[i]
          /\ ultima'.persistio
          /\ ultima'.guardado => disk' = ArchivoJson(tareas') ]_vars

(***************************************************************************)
(* Properties of reloading (SpecIdaVuelta).                                *)
(***************************************************************************)
\* C24: whatever the collection holds, inicializarTareas leaves in it the
\* records of the file, once each and in the file's order (none when the
\* file cannot be read); called again with the file unchanged, it leaves the
\* collection as the call before left it.
C24_InicializarIdempotente ==
  [][ Inicializar =>
        /\ disk.tipo = "json" =>
             /\ Len(tareas') = Len(disk.contenido)
             /\ \A i \in 1..Len(tareas') :
                  /\ DOMAIN tareas'[i] \ {"clase"} = DOMAIN disk.contenido[i]
                  /\ \A k \in DOMAIN disk.contenido[i] : tareas'[i][k] = disk.contenido[i][k]
        /\ disk.tipo # "json" => tareas' = <<>>
        /\ ultima.op = "inicializar" => tareas' = tareas ]_vars

\* Reached: a collection of two tasks, the first completed, that held
\* instances of the class was reloaded from its file
C24_Testigo ==
  /\ ultima.op = "inicializar"
  /\ disk.tipo = "json"
  /\ Len(disk.contenido) = 2
  /\ Len(tareas) = 2
  /\ tareas[1].completada
  /\ tareas[1].clase = "Object"

(***************************************************************************)
(* Properties of two processes on one file (SpecDos).                      *)
(***************************************************************************)
\* What process p loaded, and the task it added
Cargadas(p) == SubSeq(tareas[p], 1, Len(tareas[p]) - 1)
Agregada(p) == tareas[p][Len(tareas[p])]

\* The file holds a record with the description of the task
EnArchivo(t) ==
  /\ disk.tipo = "json"
  /\ \E i \in 1..Len(disk.contenido) : disk.contenido[i].descripcion = t.descripcion

\* Both processes have added a task and were told it was saved, the two
\* tasks differ, and both processes had loaded the same copy of the file
AmbosGuardaronSobreLaMismaCopia ==
  /\ \A p \in Procesos : pc[p] = "hecho" /\ ultima[p].guardado
  /\ Agregada(1).descripcion # Agregada(2).descripcion
  /\ Cargadas(1) = Cargadas(2)

\* C25: when two processes have loaded the same copy of the file, each has
\* added a different task and each save has reported success, the file lacks
\* one of the two tasks; and such an interleaving exists.
C25_UnaSePierde ==
  AmbosGuardaronSobreLaMismaCopia => ~(EnArchivo(Agregada(1)) /\ EnArchivo(Agregada(2)))

\* Reached: both loaded the one task of the file, both added and saved with
\* success, and the file holds the task of process 2 but not that of process 1
C25_Testigo ==
  /\ AmbosGuardaronSobreLaMismaCopia
  /\ Len(Cargadas(1)) = 1
  /\ EnArchivo(Agregada(2))
  /\ ~EnArchivo(Agregada(1))

(***************************************************************************)
(* Properties of the statistics (SpecEstadisticas).                        *)
(***************************************************************************)
\* C21 (as amended): on an empty collection mostrarEstadisticas prints the
\* notice that there are no tasks and nothing else: no total, no counts, no
\* percentage and no most productive day.
C21_VaciaSoloAviso ==
  (ultima.op = "estadisticas" /\ tareas = <<>>) =>
    /\ DOMAIN salida = {"mensaje"}
    /\ salida.mensaje = "sin_tareas"

\* Reached: the statistics were asked for on an empty collection
C21_Testigo ==
  /\ ultima.op = "estadisticas"
  /\ tareas = <<>>
  /\ ultima.mensaje = "sin_tareas"

\* C21 (as claimed): on an empty collection the statistics report a total
\* of 0, 0 completed, 0 pending, 0 percent and no most productive day.
C21_VaciaTodoCero ==
  (ultima.op = "estadisticas" /\ tareas = <<>>) =>
    /\ {"total", "completadas", "pendientes", "porcentajeCompletadas"} \subseteq DOMAIN salida
    /\ salida.total = 0
    /\ salida.completadas = 0
    /\ salida.pendientes = 0
    /\ salida.porcentajeCompletadas = 0
    /\ ~Tiene(salida, "diaMasProductivo")

\* The figures printed are those of the collection: the total is its size,
\* completed and pending are counted and add up to the total, and the
\* percentage is the integer nearest to 100 * completed / total (a half
\* goes up), which lies between 0 and 100
CifrasCorrectas(cifras, ts) ==
  LET hechas == Cardinality({i \in 1..Len(ts) : ts[i].completada})
  IN /\ cifras.total = Len(ts)
     /\ cifras.completadas = hechas
     /\ cifras.completadas + cifras.pendientes = cifras.total
     /\ cifras.porcentajeCompletadas \in 0..100
     /\ 2 * cifras.porcentajeCompletadas * Len(ts) - Len(ts) <= 200 * hechas
     /\ 200 * hechas < 2 * cifras.porcentajeCompletadas * Len(ts) + Len(ts)

\* C22 (as amended): for every collection that is not empty the statistics
\* report total = number of tasks, completed + pending = total and
\* percentage = round(completed / total * 100), an integer from 0 to 100.
C22_CifrasNoVacia ==
  (ultima.op = "estadisticas" /\ tareas # <<>>) =>
    /\ {"total", "completadas", "pendientes", "porcentajeCompletadas"} \subseteq DOMAIN salida
    /\ CifrasCorrectas(salida, tareas)

\* Reached: two of three tasks are completed, reported as 67 percent
C22_Testigo ==
  /\ ultima.op = "estadisticas"
  /\ Len(tareas) = 3
  /\ salida.completadas = 2
  /\ salida.porcentajeCompletadas = 67

\* C22 (as claimed): for every collection, empty or not, the statistics
\* report total = number of tasks, completed + pending = total and
\* percentage = round(completed / total * 100) when total > 0, 0 when
\* total = 0.
C22_CifrasSiempre ==
  ultima.op = "estadisticas" =>
    /\ {"total", "completadas", "pendientes", "porcentajeCompletadas"} \subseteq DOMAIN salida
    /\ IF tareas = <<>>
       THEN salida.total = 0 /\ salida.completadas + salida.pendientes = 0
            /\ salida.porcentajeCompletadas = 0
       ELSE CifrasCorrectas(salida, tareas)

\* The positions of the tasks of ts created on the day
DelDia(ts, dia) == {i \in 1..Len(ts) : ts[i].fechaCreacion \div LecturasPorDia = dia}

\* The least position of a non-empty set of positions
Primera(posiciones) == CHOOSE i \in posiciones : \A j \in posiciones : i <= j

\* C23: on a collection that is not empty, the most productive day is the
\* calendar day of fechaCreacion that most tasks share; of several days with
\* that greatest count, it is the one whose first task comes earliest in the
\* collection.
C23_DiaMasProductivo ==
  (ultima.op = "estadisticas" /\ tareas # <<>>) =>
    LET dias == {tareas[i].fechaCreacion \div LecturasPorDia : i \in 1..Len(tareas)}
        d == salida.diaMasProductivo
    IN /\ d \in dias
       /\ salida.tareasDelDia = Cardinality(DelDia(tareas, d))
       /\ \A e \in dias :
            /\ Cardinality(DelDia(tareas, e)) <= Cardinality(DelDia(tareas, d))
            /\ (e # d /\ Cardinality(DelDia(tareas, e)) = Cardinality(DelDia(tareas, d))) =>
                 Primera(DelDia(tareas, d)) < Primera(DelDia(tareas, e))

\* Reached: two days tie with one task each, a third day has none more; the
\* day of the first task of the collection, which is the later day, wins
C23_Testigo ==
  /\ ultima.op = "estadisticas"
  /\ Len(tareas) = 2
  /\ tareas[1].fechaCreacion \div LecturasPorDia > tareas[2].fechaCreacion \div LecturasPorDia
  /\ salida.diaMasProductivo = tareas[1].fechaCreacion \div LecturasPorDia
  /\ salida.tareasDelDia = 1

(***************************************************************************)
(* Properties of what the operations leave alone (Spec).                   *)
(***************************************************************************)
\* The messages of the operations that changed the collection
Logradas == {"agregada", "actualizada", "completada", "eliminada"}

\* The step leaves the collection, the order of its tasks included, and the
\* file as they were, and persistirTareas is not called in it
SinEfecto ==
  /\ tareas' = tareas
  /\ disk' = disk
  /\ ~ultima'.persistio

UnaAgregada(antes, despues) ==
  /\ Len(despues) = Len(antes) + 1
  /\ SubSeq(despues, 1, Len(antes)) = antes

\* The collection despues is antes with the task at one position changed in
\* the fields named and in no other
UnaCambiada(antes, despues, campos) ==
  /\ Len(despues) = Len(antes)
  /\ \E i \in 1..Len(antes) :
       /\ \A j \in 1..Len(antes) : j # i => despues[j] = antes[j]
       /\ \A k \in (DOMAIN antes[i] \cup DOMAIN despues[i]) \ campos :
            /\ k \in DOMAIN antes[i] \cap DOMAIN despues[i]
            /\ despues[i][k] = antes[i][k]

\* The collection despues is antes without the task at one position
UnaQuitada(antes, despues) ==
  \E i \in 1..Len(antes) : despues = SinLaDe(antes, i)

\* The collection holds the records of the file, once each and in the
\* file's order, and none when there is no file
ComoElArchivo(ts, archivo) ==
  IF archivo.tipo = "json"
  THEN /\ Len(ts) = Len(archivo.contenido)
       /\ \A i \in 1..Len(ts) :
            /\ DOMAIN ts[i] \ {"clase"} = DOMAIN archivo.contenido[i]
            /\ \A k \in DOMAIN archivo.contenido[i] : ts[i][k] = archivo.contenido[i][k]
  ELSE ts = <<>>

\* C33: within the life of one process the collection is built from the file
\* once, when the process starts and before any menu operation; after that
\* no step loads it again, and it changes only through agregarTarea (one
\* task appended), editarTarea (one description changed), completarTarea
\* (one task completed) and eliminarTarea (one task removed), whatever the
\* file holds meanwhile.
C33_CargaUnaVez ==
  [][ /\ pc = "terminado" =>
            \/ UNCHANGED <<tareas, pc, ultima>>
            \/ /\ ultima'.op = "iniciar"
               /\ ComoElArchivo(tareas', disk)
               /\ disk' = disk
      /\ pc # "terminado" =>
            /\ ultima'.op = "iniciar" => UNCHANGED <<tareas, ultima>>
            /\ \/ tareas' = tareas
               \/ ultima'.op = "agregar" /\ UnaAgregada(tareas, tareas')
               \/ ultima'.op = "editar" /\ UnaCambiada(tareas, tareas', {"descripcion"})
               \/ /\ ultima'.op = "completar"
                  /\ UnaCambiada(tareas, tareas', {"completada", "fechaCompletada"})
               \/ ultima'.op = "eliminar" /\ UnaQuitada(tareas, tareas') ]_vars

\* Reached: the save of a second task failed, so the file holds the first
\* task only; the process went on, listed both tasks and still holds both
C33_Testigo ==
  /\ pc = "menu"
  /\ ultima.op = "listar"
  /\ Len(tareas) = 2
  /\ Len(salida) = 2
  /\ disk = ArchivoJson(<<tareas[1]>>)

====
